---- MODULE Spec2Model ----
(***************************************************************************)
(* Model of main.py: four MCP weather tools, each one HTTP GET against the *)
(* AccuWeather API followed by extraction of a few JSON fields into text.  *)
(*                                                                         *)
(* Strings that come from upstream are sequences of one-character strings, *)
(* so that str.split("T") is computed on them; strings the tools return    *)
(* are TLA+ strings built with \o.                                         *)
(***************************************************************************)
EXTENDS Integers, Sequences, FiniteSets, TLC

(***************************************************************************)
(* Python values as produced by response.json().                           *)
(***************************************************************************)
JNull == [t |-> "null"]
JStr(c) == [t |-> "str", s |-> c]
JNum(n) == [t |-> "num", n |-> n]
JObj(f) == [t |-> "obj", f |-> f]
JArr(e) == [t |-> "arr", e |-> e]
EmptyDict == JObj(<<>>)

Ok(v) == [ok |-> TRUE, v |-> v]
Err(e) == [ok |-> FALSE, err |-> e]

RECURSIVE Text(_)
\* The TLA+ string spelled by a sequence of characters.
Text(c) == IF c = <<>> THEN "" ELSE Head(c) \o Text(Tail(c))

\* str(x) as an f-string renders it: None -> "None", a str as itself,
\* an int in decimal, an empty dict or list by its repr.
PyStr(v) ==
  CASE v.t = "null" -> "None"
    [] v.t = "str" -> Text(v.s)
    [] v.t = "num" -> ToString(v.n)
    [] v.t = "obj" /\ DOMAIN v.f = {} -> "{}"
    [] v.t = "arr" /\ v.e = <<>> -> "[]"

\* `not x`
PyFalsy(v) ==
  CASE v.t = "null" -> TRUE
    [] v.t = "str" -> v.s = <<>>
    [] v.t = "num" -> v.n = 0
    [] v.t = "obj" -> DOMAIN v.f = {}
    [] v.t = "arr" -> v.e = <<>>

\* x.get(k, d): only a dict has .get
PyGet(x, k, d) ==
  IF x.t = "obj"
    THEN Ok(IF k \in DOMAIN x.f THEN x.f[k] ELSE d)
    ELSE Err("AttributeError")

\* x.get(k1, {}).get(k2, d)
PyGet2(x, k1, k2, d) ==
  LET a == PyGet(x, k1, EmptyDict)
  IN  IF a.ok THEN PyGet(a.v, k2, d) ELSE a

\* x.get(k1, {}).get(k2, {}).get(k3)
PyGet3(x, k1, k2, k3) ==
  LET a == PyGet2(x, k1, k2, EmptyDict)
  IN  IF a.ok THEN PyGet(a.v, k3, JNull) ELSE a

\* x[0]
PyIndex0(x) ==
  CASE x.t = "arr" -> IF x.e = <<>> THEN Err("IndexError") ELSE Ok(x.e[1])
    [] x.t = "str" -> IF x.s = <<>> THEN Err("IndexError") ELSE Ok(JStr(<<x.s[1]>>))
    [] x.t = "obj" -> Err("KeyError")
    [] OTHER -> Err("TypeError")

\* The items `for day in x` visits: the elements of a list, the keys of a
\* dict (strings), the characters of a str; anything else is not iterable.
PyIter(x) ==
  CASE x.t = "arr" -> Ok(x.e)
    [] x.t = "str" -> Ok([i \in 1..Len(x.s) |-> JStr(<<x.s[i]>>)])
    [] x.t = "obj" -> Ok([i \in 1..Cardinality(DOMAIN x.f) |-> JStr(<<"k">>)])
    [] OTHER -> Err("TypeError")

RECURSIVE SplitT(_)
\* s.split("T")[0]: the characters before the first "T", all of s if none
SplitT(c) ==
  IF c = <<>> \/ Head(c) = "T" THEN <<>> ELSE <<Head(c)>> \o SplitT(Tail(c))

RECURSIVE JoinNL(_)
\* "\n".join(lines)
JoinNL(lines) ==
  IF lines = <<>> THEN ""
  ELSE IF Len(lines) = 1 THEN lines[1]
  ELSE lines[1] \o "\n" \o JoinNL(Tail(lines))

(***************************************************************************)
(* What a tool call ends in: the returned string, or a propagated          *)
(* exception.  extracted records whether the call indexed an element or    *)
(* read a field of the parsed body; forecasts is get_forecast's list.      *)
(***************************************************************************)
Returned(s, ex, fl) ==
  [kind |-> "text", text |-> s, error |-> "", extracted |-> ex, forecasts |-> fl]
Raised(e, ex) ==
  [kind |-> "failure", text |-> "", error |-> e, extracted |-> ex, forecasts |-> <<>>]
NoResult ==
  [kind |-> "none", text |-> "", error |-> "", extracted |-> FALSE, forecasts |-> <<>>]

\* The first exception among evaluations made in order, "" if none raised
RECURSIVE FirstErr(_)
FirstErr(rs) ==
  IF rs = <<>> THEN ""
  ELSE IF ~Head(rs).ok THEN Head(rs).err ELSE FirstErr(Tail(rs))

(***************************************************************************)
(* get_location_by_coordinates, after the request                          *)
(***************************************************************************)
LocationAdministrativeAreaStrict(data) ==
  LET a == PyGet(data, "AdministrativeArea", JNull)
  IN  IF a.ok THEN PyGet(a.v, "LocalizedName", JNull) ELSE a

LocationAdministrativeArea(data) ==
  PyGet2(data, "AdministrativeArea", "LocalizedName", JNull)

LocationCountry(data) == PyGet2(data, "Country", "LocalizedName", JNull)

LocationResult(data) ==
  LET location_key == PyGet(data, "Key", JNull)
      localized_name == PyGet(data, "LocalizedName", JNull)
      administrative_area == LocationAdministrativeArea(data)
      country == LocationCountry(data)
      e == FirstErr(<<location_key, localized_name, administrative_area, country>>)
  IN  IF e # "" THEN Raised(e, TRUE)
      ELSE Returned("Location: " \o PyStr(localized_name.v) \o ", "
                      \o PyStr(administrative_area.v) \o ", " \o PyStr(country.v)
                      \o ". Key: " \o PyStr(location_key.v), TRUE, <<>>)

(***************************************************************************)
(* search_location, after the request                                      *)
(***************************************************************************)
SearchTopMatchLast(data) ==
  IF data.t = "arr" /\ data.e # <<>> THEN Ok(data.e[Len(data.e)]) ELSE PyIndex0(data)

SearchTopMatch(data) == PyIndex0(data)

SearchFormat(data) ==
  LET top_match == SearchTopMatch(data)
  IN  IF ~top_match.ok THEN Raised(top_match.err, TRUE)
      ELSE LET location_key == PyGet(top_match.v, "Key", JNull)
               localized_name == PyGet(top_match.v, "LocalizedName", JNull)
               country == PyGet2(top_match.v, "Country", "LocalizedName", JNull)
               e == FirstErr(<<location_key, localized_name, country>>)
           IN  IF e # "" THEN Raised(e, TRUE)
               ELSE Returned("Found: " \o PyStr(localized_name.v) \o ", "
                               \o PyStr(country.v) \o ". Key: "
                               \o PyStr(location_key.v), TRUE, <<>>)

SearchResultNoGuard(data) == SearchFormat(data)

SearchResult(data) ==
  IF PyFalsy(data) THEN Returned("No location found.", FALSE, <<>>)
  ELSE SearchFormat(data)

(***************************************************************************)
(* get_current_weather, after the request                                  *)
(***************************************************************************)
WeatherFormat(data) ==
  LET weather == PyIndex0(data)
  IN  IF ~weather.ok THEN Raised(weather.err, TRUE)
      ELSE LET weather_text == PyGet(weather.v, "WeatherText", JNull)
               temp_value == PyGet3(weather.v, "Temperature", "Metric", "Value")
               temp_unit == PyGet3(weather.v, "Temperature", "Metric", "Unit")
               e == FirstErr(<<weather_text, temp_value, temp_unit>>)
           IN  IF e # "" THEN Raised(e, TRUE)
               ELSE Returned("Current Weather: " \o PyStr(weather_text.v)
                               \o ", Temperature: " \o PyStr(temp_value.v) \o "°"
                               \o PyStr(temp_unit.v), TRUE, <<>>)

WeatherResultNoGuard(data) == WeatherFormat(data)

WeatherResult(data) ==
  IF PyFalsy(data) THEN Returned("No weather data available.", FALSE, <<>>)
  ELSE WeatherFormat(data)

(***************************************************************************)
(* get_forecast, after the request                                         *)
(***************************************************************************)
NoHeadline == <<"N", "o", " ", "h", "e", "a", "d", "l", "i", "n", "e">>

ForecastHeadlineNoDefault(data) == PyGet2(data, "Headline", "Text", JNull)

ForecastHeadline(data) == PyGet2(data, "Headline", "Text", JStr(NoHeadline))

\* day.get("Date", "").split("T")[0]: only a str has .split
ForecastDate(day) ==
  LET d == PyGet(day, "Date", JStr(<<>>))
  IN  IF ~d.ok THEN d
      ELSE IF d.v.t # "str" THEN Err("AttributeError")
      ELSE Ok(JStr(SplitT(d.v.s)))

\* One pass of the loop body: the line appended for `day`
ForecastDayLine(day) ==
  LET date == ForecastDate(day)
      min_temp == PyGet3(day, "Temperature", "Minimum", "Value")
      max_temp == PyGet3(day, "Temperature", "Maximum", "Value")
      day_phrase == PyGet2(day, "Day", "IconPhrase", JNull)
      e == FirstErr(<<date, min_temp, max_temp, day_phrase>>)
  IN  IF e # "" THEN Err(e)
      ELSE Ok("- " \o PyStr(date.v) \o ": " \o PyStr(day_phrase.v) \o ", Min: "
                \o PyStr(min_temp.v) \o "°C, Max: " \o PyStr(max_temp.v) \o "°C")

RECURSIVE ForecastLoopSkipping(_)
ForecastLoopSkipping(days) ==
  IF days = <<>> THEN Ok(<<>>)
  ELSE LET rest == ForecastLoopSkipping(Tail(days))
           line == ForecastDayLine(Head(days))
       IN  IF Head(days).t = "obj" /\ "Date" \notin DOMAIN Head(days).f THEN rest
           ELSE IF ~line.ok THEN line
           ELSE IF ~rest.ok THEN rest
           ELSE Ok(<<line.v>> \o rest.v)

RECURSIVE ForecastLoop(_)
\* for day in ...: forecasts.append(line), in the order of the sequence
ForecastLoop(days) ==
  IF days = <<>> THEN Ok(<<>>)
  ELSE LET line == ForecastDayLine(Head(days))
           rest == ForecastLoop(Tail(days))
       IN  IF ~line.ok THEN line
           ELSE IF ~rest.ok THEN rest
           ELSE Ok(<<line.v>> \o rest.v)

ForecastResult(data) ==
  LET headline == ForecastHeadline(data)
  IN  IF ~headline.ok THEN Raised(headline.err, TRUE)
      ELSE LET first == "Forecast Headline: " \o PyStr(headline.v)
               daily == PyGet(data, "DailyForecasts", JArr(<<>>))
               days == IF daily.ok THEN PyIter(daily.v) ELSE daily
               lines == IF days.ok THEN ForecastLoop(days.v) ELSE days
           IN  IF ~lines.ok THEN Raised(lines.err, TRUE)
               ELSE Returned(JoinNL(<<first>> \o lines.v), TRUE, <<first>> \o lines.v)

(***************************************************************************)
(* The request each tool builds                                            *)
(***************************************************************************)
API_KEY == "KEY"
BASE_URL == "https://api"

\* f"{x}" of a float with an integral value: -7.0 renders as "-7.0"
FloatStr(x) == ToString(x) \o ".0"

LocationRequest(latitude, longitude) ==
  [url |-> BASE_URL \o "/locations/v1/cities/geoposition/search",
   params |-> [apikey |-> API_KEY,
               q |-> FloatStr(latitude) \o "," \o FloatStr(longitude)]]

SearchRequest(query) ==
  [url |-> BASE_URL \o "/locations/v1/cities/search",
   params |-> [apikey |-> API_KEY, q |-> query]]

WeatherRequest(location_key) ==
  [url |-> BASE_URL \o "/currentconditions/v1/" \o location_key,
   params |-> [apikey |-> API_KEY]]

ForecastUrlByDays(location_key, days) ==
  BASE_URL \o "/forecasts/v1/daily/" \o ToString(days) \o "day/" \o location_key

ForecastUrl(location_key, days) ==
  BASE_URL \o "/forecasts/v1/daily/5day/" \o location_key

ForecastRequest(location_key, days) ==
  [url |-> ForecastUrl(location_key, days),
   params |-> [apikey |-> API_KEY, metric |-> "true"]]

NoRequest == [url |-> "", params |-> <<>>]

(***************************************************************************)
(* The HTTP client and the upstream                                        *)
(***************************************************************************)
\* A body that is not JSON (an HTML error page, an empty body)
RawText == [t |-> "raw"]

\* response.json()
JsonParse(body) == IF body.t = "raw" THEN Err("JSONDecodeError") ELSE Ok(body)

IsBelow400(status) == status < 400

\* response.raise_for_status() returns only for a 2xx status
IsSuccess(status) == status >= 200 /\ status <= 299

\* follow_redirects=True: the client answers these itself with a new GET
IsRedirect(r) == r.status \in {301, 302, 303, 307, 308} /\ r.location

NoResponse == [status |-> 0, location |-> FALSE, body |-> RawText]

\* The body of the `async with` block after client.get has returned
BlockOutcome(r) ==
  IF ~IsSuccess(r.status) THEN Err("HTTPStatusError") ELSE JsonParse(r.body)

NoOutcome == [ok |-> FALSE, err |-> ""]

LeaveOpenOnError(cl, out) == [cl EXCEPT !.open = ~out.ok]

\* AsyncClient.__aexit__: the client is closed however the block ended
AExit(cl, out) == [cl EXCEPT !.open = FALSE]

\* What the tool does with the parsed body once the block is left
ToolResult(tool, data) ==
  CASE tool = "get_location_by_coordinates" -> LocationResult(data)
    [] tool = "search_location" -> SearchResult(data)
    [] tool = "get_current_weather" -> WeatherResult(data)
    [] tool = "get_forecast" -> ForecastResult(data)

(***************************************************************************)
(* Bounds of the model and the bodies the upstream may answer with         *)
(***************************************************************************)
\* Longest candidate / conditions sequence the upstream answers with
MaxCandidates == 2
\* Longest DailyForecasts sequence the upstream answers with
MaxDays == 2
\* Most redirects the upstream answers one call with
MaxRedirects == 1

Calls == {"c1", "c2"}
Solo == {"c1"}

Statuses == {200, 299, 300, 302, 404, 500}

Absent == [t |-> "absent"]
\* The dict holding the fields of g that are present
Fields(g) == JObj([k \in {x \in DOMAIN g : g[x] # Absent} |-> g[k]])

SeqsUpTo(S, n) == UNION {[1..m -> S] : m \in 0..n}

Bdg == JStr(<<"B", "d", "g">>)
Bali == JStr(<<"B", "a", "l", "i">>)
WestJava == JStr(<<"W", "J">>)
Indonesia == JStr(<<"I", "D">>)
Key42 == JStr(<<"4", "2">>)
Sunny == JStr(<<"S", "u", "n">>)
Rain == JStr(<<"R", "a", "i", "n">>)
UnitC == JStr(<<"C">>)
Named(v) == JObj([LocalizedName |-> v])

LocationObjects ==
  {Fields(g) : g \in [Key : {Absent, Key42},
                      LocalizedName : {Absent, Bdg},
                      AdministrativeArea : {Absent, Named(WestJava), EmptyDict, JNull},
                      Country : {Absent, Named(Indonesia)}]}

Candidates ==
  {Fields(g) : g \in [Key : {Absent, Key42},
                      LocalizedName : {Bdg, Bali},
                      Country : {Absent, Named(Indonesia)}]}

Conditions ==
  {Fields(g) : g \in [WeatherText : {Absent, Sunny},
                      Temperature : {Absent, EmptyDict, JNull,
                                     JObj([Metric |-> EmptyDict]),
                                     JObj([Metric |-> JObj([Value |-> JNum(21),
                                                            Unit |-> UnitC])])}]}

Temp(lo, hi) == JObj([Minimum |-> JObj([Value |-> JNum(lo)]),
                      Maximum |-> JObj([Value |-> JNum(hi)])])
DayOne == JObj([Date |-> JStr(<<"d", "1", "T", "0", "7">>),
                Day |-> JObj([IconPhrase |-> Sunny]), Temperature |-> Temp(1, 9)])
DayTwo == JObj([Date |-> JStr(<<"d", "2">>),
                Day |-> JObj([IconPhrase |-> Rain]), Temperature |-> Temp(-2, 8)])
Days ==
  {DayOne, DayTwo,
   JObj([Day |-> JObj([IconPhrase |-> Rain]), Temperature |-> Temp(2, 8)]),
   JObj([Date |-> JStr(<<"d", "3">>), Temperature |-> JObj([Minimum |-> EmptyDict])]),
   JObj([Date |-> JStr(<<"d", "4">>), Day |-> EmptyDict]),
   JObj([Date |-> JNull]),
   JNull}

Headlines == {Absent, EmptyDict, JNull,
              JObj([Text |-> Sunny]), JObj([Text |-> JNull])}

ForecastObjects ==
  {Fields(g) : g \in [Headline : Headlines,
                      DailyForecasts : {Absent, JNull, EmptyDict}
                                         \cup {JArr(d) : d \in SeqsUpTo(Days, MaxDays)}]}

\* Every body the model lets the upstream send for a tool
Bodies(tool) ==
  {RawText, JNull, JArr(<<>>), EmptyDict, JNum(0)} \cup
  CASE tool = "get_location_by_coordinates" -> LocationObjects
    [] tool = "search_location" ->
         {JArr(e) : e \in SeqsUpTo(Candidates, MaxCandidates)}
    [] tool = "get_current_weather" ->
         {JArr(e) : e \in SeqsUpTo(Conditions, MaxCandidates)}
    [] tool = "get_forecast" -> ForecastObjects

CandidateA == JObj([Key |-> Key42, LocalizedName |-> Bdg, Country |-> Named(Indonesia)])
CandidateB == JObj([Key |-> Key42, LocalizedName |-> Bali])

\* A few bodies of each kind, for runs with several calls in flight
CoreBodies(tool) ==
  CASE tool = "get_location_by_coordinates" ->
         {RawText, JObj([Key |-> Key42, LocalizedName |-> Bdg])}
    [] tool = "search_location" ->
         {JArr(<<>>), JArr(<<CandidateA>>), JArr(<<CandidateA, CandidateB>>),
          JArr(<<CandidateB, CandidateA>>)}
    [] tool = "get_current_weather" ->
         {JArr(<<>>), JArr(<<JObj([WeatherText |-> Sunny])>>)}
    [] tool = "get_forecast" ->
         {EmptyDict, JObj([Headline |-> JObj([Text |-> Sunny]),
                           DailyForecasts |-> JArr(<<DayOne, DayTwo>>)])}

\* The responses the upstream may give: any body with a 2xx status, a few
\* with any other (the tools never read the body of those)
Responses(tool, menu) ==
  {[status |-> st, location |-> loc, body |-> b] :
     st \in Statuses, loc \in BOOLEAN, b \in menu}

UpstreamResponses(tool) ==
  {r \in Responses(tool, Bodies(tool)) :
     /\ r.location => r.status = 302
     /\ ~IsSuccess(r.status) => r.body \in CoreBodies(tool)}

CoreStatuses == {200, 302, 404}

CoreResponses(tool) ==
  {r \in Responses(tool, CoreBodies(tool)) :
     /\ r.status \in CoreStatuses
     /\ r.location => r.status = 302}

Latitudes == {-7}
Longitudes == {107}
Queries == {"bandung"}
LocationKeys == {"k1"}
DaysValues == {1, 5}

(***************************************************************************)
(* State: one record per call slot of the tool host                        *)
(***************************************************************************)
VARIABLES
  pc,        \* where each call is: idle, entered, awaiting, received, closing,
             \* returned, failed
  call,      \* the tool invoked and its arguments
  request,   \* url and params built by the tool
  gets,      \* how many times the tool has called client.get
  sent,      \* how many GET requests the client has put on the wire
  response,  \* the last response received
  clientOf,  \* the client each call opened (0: none yet)
  clients,   \* every AsyncClient created so far
  outcome,   \* how the `async with` block ended: parsed data or an exception
  result     \* what the call returned or raised

vars == <<pc, call, request, gets, sent, response, clientOf, clients, outcome, result>>

Init ==
  /\ pc = [c \in Calls |-> "idle"]
  /\ call = [c \in Calls |-> [tool |-> "none"]]
  /\ request = [c \in Calls |-> NoRequest]
  /\ gets = [c \in Calls |-> 0]
  /\ sent = [c \in Calls |-> 0]
  /\ response = [c \in Calls |-> NoResponse]
  /\ clientOf = [c \in Calls |-> 0]
  /\ clients = <<>>
  /\ outcome = [c \in Calls |-> NoOutcome]
  /\ result = [c \in Calls |-> NoResult]

\* httpx.AsyncClient(...): each `async with` statement creates a new client
NewClientId(cls) == Len(cls) + 1

\* Entering a tool: the request is built and the client is opened
Enter(c, args, req) ==
  /\ pc' = [pc EXCEPT ![c] = "entered"]
  /\ call' = [call EXCEPT ![c] = args]
  /\ request' = [request EXCEPT ![c] = req]
  /\ LET id == NewClientId(clients)
     IN  /\ clientOf' = [clientOf EXCEPT ![c] = id]
         /\ clients' = Append(clients, [open |-> TRUE])
  /\ UNCHANGED <<gets, sent, response, outcome, result>>

get_location_by_coordinates(c) ==
  /\ pc[c] = "idle"
  /\ \E latitude \in Latitudes, longitude \in Longitudes :
       Enter(c, [tool |-> "get_location_by_coordinates",
                 latitude |-> latitude, longitude |-> longitude],
             LocationRequest(latitude, longitude))

search_location(c) ==
  /\ pc[c] = "idle"
  /\ \E query \in Queries :
       Enter(c, [tool |-> "search_location", query |-> query], SearchRequest(query))

get_current_weather(c) ==
  /\ pc[c] = "idle"
  /\ \E location_key \in LocationKeys :
       Enter(c, [tool |-> "get_current_weather", location_key |-> location_key],
             WeatherRequest(location_key))

get_forecast(c) ==
  /\ pc[c] = "idle"
  /\ \E location_key \in LocationKeys, days \in DaysValues :
       Enter(c, [tool |-> "get_forecast", location_key |-> location_key,
                 days |-> days],
             ForecastRequest(location_key, days))

ClientGetWithRetry(c) ==
  /\ pc[c] \in {"entered", "closing"}
  /\ pc[c] = "closing" => ~outcome[c].ok /\ gets[c] < 2
  /\ pc' = [pc EXCEPT ![c] = "awaiting"]
  /\ gets' = [gets EXCEPT ![c] = @ + 1]
  /\ sent' = [sent EXCEPT ![c] = @ + 1]
  /\ outcome' = [outcome EXCEPT ![c] = NoOutcome]
  /\ UNCHANGED <<call, request, response, clientOf, clients, result>>

\* await client.get(url, params=params): the request goes out, the call waits
ClientGet(c) ==
  /\ pc[c] = "entered"
  /\ pc' = [pc EXCEPT ![c] = "awaiting"]
  /\ gets' = [gets EXCEPT ![c] = @ + 1]
  /\ sent' = [sent EXCEPT ![c] = @ + 1]
  /\ UNCHANGED <<call, request, response, clientOf, clients, outcome, result>>

\* The upstream answers the request in flight
UpstreamRespond(c, menu) ==
  /\ pc[c] = "awaiting"
  /\ \E r \in menu :
       /\ IsRedirect(r) => sent[c] <= MaxRedirects
       /\ response' = [response EXCEPT ![c] = r]
  /\ pc' = [pc EXCEPT ![c] = "received"]
  /\ UNCHANGED <<call, request, gets, sent, clientOf, clients, outcome, result>>

\* The upstream cannot be reached: client.get raises
UpstreamUnreachable(c) ==
  /\ pc[c] = "awaiting"
  /\ outcome' = [outcome EXCEPT ![c] = Err("ConnectError")]
  /\ pc' = [pc EXCEPT ![c] = "closing"]
  /\ UNCHANGED <<call, request, gets, sent, response, clientOf, clients, result>>

\* Inside client.get, follow_redirects=True: a redirect is answered with a
\* GET to its Location, and the tool goes on waiting
FollowRedirect(c) ==
  /\ pc[c] = "received"
  /\ IsRedirect(response[c])
  /\ sent' = [sent EXCEPT ![c] = @ + 1]
  /\ pc' = [pc EXCEPT ![c] = "awaiting"]
  /\ UNCHANGED <<call, request, gets, response, clientOf, clients, outcome, result>>

\* client.get returns; raise_for_status() and json() end the block
LeaveBlock(c) ==
  /\ pc[c] = "received"
  /\ ~IsRedirect(response[c])
  /\ outcome' = [outcome EXCEPT ![c] = BlockOutcome(response[c])]
  /\ pc' = [pc EXCEPT ![c] = "closing"]
  /\ UNCHANGED <<call, request, gets, sent, response, clientOf, clients, result>>

\* __aexit__ completes; an exception propagates, otherwise the rest of the
\* tool runs to its return without suspending
Finish(c) ==
  /\ pc[c] = "closing"
  /\ clients' = [clients EXCEPT ![clientOf[c]] = AExit(@, outcome[c])]
  /\ IF outcome[c].ok
       THEN LET r == ToolResult(call[c].tool, outcome[c].v)
            IN  /\ result' = [result EXCEPT ![c] = r]
                /\ pc' = [pc EXCEPT ![c] = IF r.kind = "text" THEN "returned" ELSE "failed"]
       ELSE /\ result' = [result EXCEPT ![c] = Raised(outcome[c].err, FALSE)]
            /\ pc' = [pc EXCEPT ![c] = "failed"]
  /\ UNCHANGED <<call, request, gets, sent, response, clientOf, outcome>>

\* One call at a time, the upstream free to send any body
Next ==
  \E c \in Solo :
    \/ get_location_by_coordinates(c)
    \/ search_location(c)
    \/ get_current_weather(c)
    \/ get_forecast(c)
    \/ ClientGet(c)
    \/ UpstreamRespond(c, UpstreamResponses(call[c].tool))
    \/ UpstreamUnreachable(c)
    \/ FollowRedirect(c)
    \/ LeaveBlock(c)
    \/ Finish(c)

Spec == Init /\ [][Next]_vars

\* The host runs the calls concurrently
NextConcurrent ==
  \E c \in Calls :
    \/ get_location_by_coordinates(c)
    \/ search_location(c)
    \/ get_current_weather(c)
    \/ get_forecast(c)
    \/ ClientGet(c)
    \/ UpstreamRespond(c, CoreResponses(call[c].tool))
    \/ UpstreamUnreachable(c)
    \/ FollowRedirect(c)
    \/ LeaveBlock(c)
    \/ Finish(c)

SpecConcurrent == Init /\ [][NextConcurrent]_vars

(***************************************************************************)
(* Vocabulary of the properties                                            *)
(***************************************************************************)
Done(c) == pc[c] \in {"returned", "failed"}

\* Call c ran `tool` to its end and the response it processed was a 2xx
Finished2xx(c, tool) ==
  /\ Done(c)
  /\ call[c].tool = tool
  /\ response[c].status \in 200..299

RECURSIVE Shaped(_, _)
\* Every object on the path that is present in x is a dict
Shaped(x, path) ==
  /\ x.t = "obj"
  /\ (Len(path) > 1 /\ Head(path) \in DOMAIN x.f) => Shaped(x.f[Head(path)], Tail(path))

RECURSIVE Shown(_, _)
\* How the field at the path is expected to appear: "None" when it, or an
\* object on the way to it, is missing
Shown(x, path) ==
  IF x.t = "obj" /\ Head(path) \in DOMAIN x.f
    THEN IF Len(path) = 1 THEN PyStr(x.f[Head(path)])
         ELSE Shown(x.f[Head(path)], Tail(path))
    ELSE "None"

ExpectedHeadline(b) ==
  IF "Headline" \in DOMAIN b.f /\ "Text" \in DOMAIN b.f.Headline.f
    THEN PyStr(b.f.Headline.f.Text) ELSE "No headline"

WellFormedDay(day) ==
  /\ day.t = "obj"
  /\ "Date" \in DOMAIN day.f => day.f.Date.t = "str"
  /\ Shaped(day, <<"Day", "IconPhrase">>)
  /\ Shaped(day, <<"Temperature", "Minimum", "Value">>)
  /\ Shaped(day, <<"Temperature", "Maximum", "Value">>)

ExpectedDayLine(day) ==
  "- " \o (IF "Date" \in DOMAIN day.f THEN Text(SplitT(day.f.Date.s)) ELSE "")
       \o ": " \o Shown(day, <<"Day", "IconPhrase">>)
       \o ", Min: " \o Shown(day, <<"Temperature", "Minimum", "Value">>)
       \o "°C, Max: " \o Shown(day, <<"Temperature", "Maximum", "Value">>) \o "°C"

\* The entries of DailyForecasts when it is a list, none when it is absent
DailyEntries(b) ==
  IF "DailyForecasts" \in DOMAIN b.f THEN b.f.DailyForecasts.e ELSE <<>>

HasDailyList(b) ==
  /\ b.t = "obj"
  /\ "DailyForecasts" \in DOMAIN b.f => b.f.DailyForecasts.t = "arr"

C2_EmptyListLiterals ==
  \A c \in Calls :
    /\ (Finished2xx(c, "search_location") /\ response[c].body = JArr(<<>>))
         => /\ pc[c] = "returned"
            /\ result[c].kind = "text"
            /\ result[c].text = "No location found."
            /\ ~result[c].extracted
    /\ (Finished2xx(c, "get_current_weather") /\ response[c].body = JArr(<<>>))
         => /\ pc[c] = "returned"
            /\ result[c].kind = "text"
            /\ result[c].text = "No weather data available."
            /\ ~result[c].extracted

C2_Witness ==
  \E c \in Calls :
    /\ Finished2xx(c, "get_current_weather")
    /\ response[c].body = JArr(<<>>)
    /\ result[c].text = "No weather data available."

(***************************************************************************)
(* C3: on a 2xx response of the expected shape (every nested object that   *)
(* is present is a dict), each tool returns its text with every missing    *)
(* field shown as the placeholder "None" ("No headline" for the headline,  *)
(* the empty string for a date); the call does not raise.                  *)
(***************************************************************************)
C3_MissingFieldsArePlaceholders ==
  \A c \in Calls :
    LET b == response[c].body
    IN
    /\ ( /\ Finished2xx(c, "get_location_by_coordinates")
         /\ Shaped(b, <<"AdministrativeArea", "LocalizedName">>)
         /\ Shaped(b, <<"Country", "LocalizedName">>) )
         => /\ result[c].kind = "text"
            /\ result[c].text =
                 "Location: " \o Shown(b, <<"LocalizedName">>) \o ", "
                   \o Shown(b, <<"AdministrativeArea", "LocalizedName">>) \o ", "
                   \o Shown(b, <<"Country", "LocalizedName">>)
                   \o ". Key: " \o Shown(b, <<"Key">>)
    /\ ( /\ Finished2xx(c, "search_location")
         /\ b.t = "arr" /\ b.e # <<>>
         /\ Shaped(b.e[1], <<"Country", "LocalizedName">>) )
         => /\ result[c].kind = "text"
            /\ result[c].text =
                 "Found: " \o Shown(b.e[1], <<"LocalizedName">>) \o ", "
                   \o Shown(b.e[1], <<"Country", "LocalizedName">>)
                   \o ". Key: " \o Shown(b.e[1], <<"Key">>)
    /\ ( /\ Finished2xx(c, "get_current_weather")
         /\ b.t = "arr" /\ b.e # <<>>
         /\ Shaped(b.e[1], <<"Temperature", "Metric", "Value">>) )
         => /\ result[c].kind = "text"
            /\ result[c].text =
                 "Current Weather: " \o Shown(b.e[1], <<"WeatherText">>)
                   \o ", Temperature: "
                   \o Shown(b.e[1], <<"Temperature", "Metric", "Value">>) \o "°"
                   \o Shown(b.e[1], <<"Temperature", "Metric", "Unit">>)
    /\ ( /\ Finished2xx(c, "get_forecast")
         /\ Shaped(b, <<"Headline", "Text">>)
         /\ HasDailyList(b)
         /\ \A i \in 1..Len(DailyEntries(b)) : WellFormedDay(DailyEntries(b)[i]) )
         => /\ result[c].kind = "text"
            /\ result[c].forecasts =
                 <<"Forecast Headline: " \o ExpectedHeadline(b)>>
                   \o [i \in 1..Len(DailyEntries(b)) |->
                         ExpectedDayLine(DailyEntries(b)[i])]

C3_Witness ==
  \E c \in Calls :
    /\ Finished2xx(c, "get_location_by_coordinates")
    /\ response[c].body = JObj([Key |-> Key42, Country |-> Named(Indonesia)])
    /\ result[c].text = "Location: None, None, ID. Key: 42"

C5_HeadlineFirst ==
  \A c \in Calls :
    (pc[c] = "returned" /\ call[c].tool = "get_forecast")
      => LET b == response[c].body
             first == "Forecast Headline: " \o ExpectedHeadline(b)
             fl == result[c].forecasts
         IN  /\ fl # <<>>
             /\ fl[1] = first
             /\ result[c].text =
                  IF Len(fl) = 1 THEN first ELSE first \o "\n" \o JoinNL(Tail(fl))
             /\ ("Headline" \notin DOMAIN b.f \/ "Text" \notin DOMAIN b.f.Headline.f)
                  => fl[1] = "Forecast Headline: No headline"

C5_Witness ==
  \E c \in Calls :
    /\ pc[c] = "returned"
    /\ call[c].tool = "get_forecast"
    /\ response[c].body = JObj([Headline |-> EmptyDict])
    /\ result[c].text = "Forecast Headline: No headline"

(***************************************************************************)
(* C6: two search_location calls whose 2xx bodies are non-empty candidate  *)
(* sequences with the same element 0 end in the same result, whatever the  *)
(* later elements are.                                                     *)
(***************************************************************************)
C6_OnlyFirstCandidate ==
  \A c1 \in Calls, c2 \in Calls :
    ( /\ Finished2xx(c1, "search_location")
      /\ Finished2xx(c2, "search_location")
      /\ response[c1].body.t = "arr" /\ response[c1].body.e # <<>>
      /\ response[c2].body.t = "arr" /\ response[c2].body.e # <<>>
      /\ response[c1].body.e[1] = response[c2].body.e[1] )
      => result[c1] = result[c2]

C6_Witness ==
  /\ Finished2xx("c1", "search_location")
  /\ Finished2xx("c2", "search_location")
  /\ response["c1"].body = JArr(<<CandidateA>>)
  /\ response["c2"].body = JArr(<<CandidateA, CandidateB>>)
  /\ result["c1"].text = "Found: Bdg, ID. Key: 42"
  /\ result["c2"] = result["c1"]

(***************************************************************************)
(* C7 as stated: a finished call has put exactly one GET on the wire.      *)
(***************************************************************************)
C7_ExactlyOneGetOnTheWire ==
  \A c \in Calls : Done(c) => sent[c] = 1

(***************************************************************************)
(* C7 as amended: a tool calls client.get exactly once, whatever the       *)
(* outcome, and never again after a failure; every other GET on the wire   *)
(* is the redirect-following client answering a 3xx that carries a         *)
(* Location.                                                               *)
(***************************************************************************)
C7_OneClientGetPlusRedirects ==
  [][\A c \in Calls :
       /\ gets'[c] # gets[c] => (pc[c] = "entered" /\ gets[c] = 0 /\ gets'[c] = 1)
       /\ Done(c)' => gets'[c] = 1
       /\ sent'[c] # sent[c] =>
            /\ sent'[c] = sent[c] + 1
            /\ \/ gets'[c] # gets[c]
               \/ /\ pc[c] = "received"
                  /\ response[c].status \in {301, 302, 303, 307, 308}
                  /\ response[c].location]_vars

C7_Witness ==
  \E c \in Calls :
    /\ pc[c] = "failed"
    /\ result[c].error = "HTTPStatusError"
    /\ gets[c] = 1
    /\ sent[c] = 2

(***************************************************************************)
(* C8: the days argument of get_forecast changes nothing: every call       *)
(* requests the 5day path of its location key with apikey and metric=true, *)
(* and two calls with the same key and the same response end in the same   *)
(* result whatever their days.                                             *)
(***************************************************************************)
C8_DaysHasNoEffect ==
  \A c1 \in Calls, c2 \in Calls :
    (call[c1].tool = "get_forecast" /\ call[c2].tool = "get_forecast"
       /\ call[c1].location_key = call[c2].location_key)
      => /\ request[c1].url =
              "https://api/forecasts/v1/daily/5day/" \o call[c1].location_key
         /\ request[c1].params = [apikey |-> "KEY", metric |-> "true"]
         /\ request[c1] = request[c2]
         /\ (Done(c1) /\ Done(c2) /\ response[c1] = response[c2])
              => result[c1] = result[c2]

C8_Witness ==
  /\ pc["c1"] = "returned" /\ pc["c2"] = "returned"
  /\ call["c1"].tool = "get_forecast" /\ call["c2"].tool = "get_forecast"
  /\ call["c1"].days = 1 /\ call["c2"].days = 5
  /\ response["c1"] = response["c2"]
  /\ Len(result["c1"].forecasts) = 3
  /\ result["c1"] = result["c2"]

(***************************************************************************)
(* C9: under any interleaving each call has a client of its own, no two    *)
(* calls have the same client, and a call that has returned or failed has  *)
(* closed its client, whichever way it ended.                              *)
(***************************************************************************)
C9_ClientScopedToCall ==
  /\ \A c \in Calls :
       /\ pc[c] # "idle" => clientOf[c] \in DOMAIN clients
       /\ pc[c] \in {"entered", "awaiting", "received", "closing"}
            => clients[clientOf[c]].open
       /\ Done(c) => ~clients[clientOf[c]].open
  /\ \A c1 \in Calls, c2 \in Calls :
       (c1 # c2 /\ pc[c1] # "idle" /\ pc[c2] # "idle") => clientOf[c1] # clientOf[c2]

C9_Witness ==
  \E c1 \in Calls, c2 \in Calls :
    /\ pc[c1] = "failed" /\ result[c1].error = "JSONDecodeError"
    /\ pc[c2] = "failed" /\ result[c2].error = "HTTPStatusError"
    /\ ~clients[clientOf[c1]].open
    /\ ~clients[clientOf[c2]].open

(***************************************************************************)
(* C10: a get_forecast call that returns on a body with n DailyForecasts   *)
(* entries returns n+1 lines joined by newlines: the headline line, then   *)
(* for i = 1..n the line of entry i, in the order of the body; with no     *)
(* entries the string is the headline line alone.                          *)
(***************************************************************************)
C10_OneLinePerDayInOrder ==
  \A c \in Calls :
    (pc[c] = "returned" /\ call[c].tool = "get_forecast"
       /\ HasDailyList(response[c].body))
      => LET days == DailyEntries(response[c].body)
             fl == result[c].forecasts
         IN  /\ Len(fl) = Len(days) + 1
             /\ \A i \in 1..Len(days) : fl[i + 1] = ExpectedDayLine(days[i])
             /\ result[c].text = JoinNL(fl)
             /\ days = <<>> => result[c].text = fl[1]

C10_Witness ==
  \E c \in Calls :
    /\ pc[c] = "returned"
    /\ call[c].tool = "get_forecast"
    /\ HasDailyList(response[c].body)
    /\ DailyEntries(response[c].body) = <<DayTwo, DayOne>>
    /\ result[c].text =
         "Forecast Headline: No headline\n- d2: Rain, Min: -2°C, Max: 8°C\n- d1: Sun, Min: 1°C, Max: 9°C"

====
